---- MODULE Spec2Model ----
(***************************************************************************)
(* Model of darkdraw's ANSI loader (src/darkdraw/loader_ansi.py): the      *)
(* ANSIParser scanner, its cursor and attribute state, the SGR             *)
(* interpreter and the cell emitter.                                       *)
(*                                                                         *)
(* A text is a sequence of characters; a character is a one-element name   *)
(* ("X", "[", "ESC", "LF", ...).  Python strings are sequences of such     *)
(* characters, Python's None is the value None below, and the parser's     *)
(* position i is 0-based as in the source (content[i] is content[i + 1]    *)
(* here).                                                                  *)
(***************************************************************************)
EXTENDS Integers, Sequences, FiniteSets, TLC

VARIABLES content, i, x, y, fg_color, bg_color, bold, underline, reverse,
          rows, max_x, max_y, pc, returned

vars == <<content, i, x, y, fg_color, bg_color, bold, underline, reverse,
          rows, max_x, max_y, pc, returned>>

----------------------------------------------------------------------------
(* Characters *)

ESC == "ESC"
BEL == "BEL"
LF == "LF"
CR == "CR"
TAB == "TAB"
SOH == "SOH"
BSL == "\\"

Digits == {"0", "1", "2", "3", "4", "5", "6", "7", "8", "9"}

Letters ==
    {"A", "B", "C", "D", "E", "F", "G", "H", "I", "J", "K", "L", "M",
     "N", "O", "P", "Q", "R", "S", "T", "U", "V", "W", "X", "Y", "Z",
     "a", "b", "c", "d", "e", "f", "g", "h", "i", "j", "k", "l", "m",
     "n", "o", "p", "q", "r", "s", "t", "u", "v", "w", "x", "y", "z"}

\* ord(ch) for the characters the model uses: the control characters have
\* their code points, every other character is printable (>= 32).
ord(ch) ==
    CASE ch = SOH -> 1
      [] ch = BEL -> 7
      [] ch = TAB -> 9
      [] ch = LF -> 10
      [] ch = CR -> 13
      [] ch = ESC -> 27
      [] OTHER -> 32

\* Python's None (the colours are otherwise non-negative integers).
None == -1

----------------------------------------------------------------------------
(* Python's string functions, on sequences of characters *)

DigitVal(c) ==
    CASE c = "0" -> 0 [] c = "1" -> 1 [] c = "2" -> 2 [] c = "3" -> 3
      [] c = "4" -> 4 [] c = "5" -> 5 [] c = "6" -> 6 [] c = "7" -> 7
      [] c = "8" -> 8 [] c = "9" -> 9

DigitChar(d) ==
    CASE d = 0 -> "0" [] d = 1 -> "1" [] d = 2 -> "2" [] d = 3 -> "3"
      [] d = 4 -> "4" [] d = 5 -> "5" [] d = 6 -> "6" [] d = 7 -> "7"
      [] d = 8 -> "8" [] d = 9 -> "9"

\* int(s) succeeds on a non-empty string of digits and raises ValueError on
\* the empty string and on anything else.
IsInt(s) == Len(s) > 0 /\ \A k \in 1..Len(s) : s[k] \in Digits

RECURSIVE int(_)
int(s) ==
    IF Len(s) = 0 THEN 0
    ELSE 10 * int(SubSeq(s, 1, Len(s) - 1)) + DigitVal(s[Len(s)])

\* str(n) for n >= 0: the decimal digits, without leading zeros.
RECURSIVE str(_)
str(n) ==
    IF n < 10 THEN <<DigitChar(n)>>
    ELSE str(n \div 10) \o <<DigitChar(n % 10)>>

\* s.replace(':', ';')
replace(s) == [k \in 1..Len(s) |-> IF s[k] = ":" THEN ";" ELSE s[k]]

\* s.split(sep) for a one-character sep: the pieces between the
\* separators, empty pieces kept.
RECURSIVE split(_, _)
split(s, sep) ==
    IF \A k \in 1..Len(s) : s[k] /= sep THEN <<s>>
    ELSE LET k == CHOOSE k \in 1..Len(s) :
                      s[k] = sep /\ \A j \in 1..(k - 1) : s[j] /= sep
         IN  <<SubSeq(s, 1, k - 1)>> \o split(SubSeq(s, k + 1, Len(s)), sep)

\* sep.join(parts)
RECURSIVE join(_, _)
join(sep, parts) ==
    IF Len(parts) = 0 THEN <<>>
    ELSE IF Len(parts) = 1 THEN parts[1]
    ELSE parts[1] \o sep \o join(sep, Tail(parts))

\* params.index(v), as a 1-based position; 0 stands for the ValueError
\* raised when v is not in the list.
index(params, v) ==
    IF \E k \in 1..Len(params) : params[k] = v
    THEN CHOOSE k \in 1..Len(params) :
             params[k] = v /\ \A j \in 1..(k - 1) : params[j] /= v
    ELSE 0

max(a, b) == IF a >= b THEN a ELSE b

----------------------------------------------------------------------------
(* The three patterns of parse.  Each XxxEnd(text, p) is match.end() of     *)
(* pattern.match(text, p), a 0-based position, or -1 when there is no match *)

At(text, p) == IF p < Len(text) THEN text[p + 1] ELSE "EOF"

\* The end of the longest run of characters of class cls starting at p.
RECURSIVE RunEnd(_, _, _)
RunEnd(text, p, cls) ==
    IF p < Len(text) /\ text[p + 1] \in cls THEN RunEnd(text, p + 1, cls)
    ELSE p

\* \x1b\[([0-9;:]*)([A-Za-z])
csi_End(text, p) ==
    IF At(text, p) = ESC /\ At(text, p + 1) = "["
    THEN LET q == RunEnd(text, p + 2, Digits \cup {";", ":"})
         IN  IF At(text, q) \in Letters THEN q + 1 ELSE -1
    ELSE -1

csi_group1(text, p) == SubSeq(text, p + 3, csi_End(text, p) - 1)

csi_group2(text, p) == At(text, csi_End(text, p) - 1)

\* The OSC pattern with the bell as its only terminator.
osc_End_bel_only(text, p) ==
    IF At(text, p) = ESC /\ At(text, p + 1) = "]"
    THEN LET q == RunEnd(text, p + 2,
                         {text[k] : k \in 1..Len(text)} \ {BEL, ESC})
         IN  IF At(text, q) = BEL THEN q + 1 ELSE -1
    ELSE -1

\* \x1b\]([^\x07\x1b]*(?:\x07|\x1b\\))
osc_End(text, p) ==
    IF At(text, p) = ESC /\ At(text, p + 1) = "]"
    THEN LET q == RunEnd(text, p + 2,
                         {text[k] : k \in 1..Len(text)} \ {BEL, ESC})
         IN  IF At(text, q) = BEL THEN q + 1
             ELSE IF At(text, q) = ESC /\ At(text, q + 1) = BSL THEN q + 2
             ELSE -1
    ELSE -1

\* \x1b[()][AB012]
charset_End(text, p) ==
    IF /\ At(text, p) = ESC
       /\ At(text, p + 1) \in {"(", ")"}
       /\ At(text, p + 2) \in {"A", "B", "0", "1", "2"}
    THEN p + 3
    ELSE -1

----------------------------------------------------------------------------
(* ANSIParser.rgb_to_256.  round() of the source is applied to r / 51 and   *)
(* to (r - 8) / 247 * 24, neither of which is ever a half for an integer r, *)
(* so it is the nearest integer, computed here in integers.                 *)

\* rgb_to_256 without the branch for r > 248.
rgb_to_256_no_white(r, g, b) ==
    IF r = g /\ g = b
    THEN IF r < 8 THEN 16
         ELSE ((48 * (r - 8) + 247) \div 494) + 232
    ELSE LET r6 == (2 * r + 51) \div 102
             g6 == (2 * g + 51) \div 102
             b6 == (2 * b + 51) \div 102
         IN  16 + (36 * r6) + (6 * g6) + b6

rgb_to_256(r, g, b) ==
    IF r = g /\ g = b
    THEN IF r < 8 THEN 16
         ELSE IF r > 248 THEN 231
         ELSE ((48 * (r - 8) + 247) \div 494) + 232
    ELSE LET r6 == (2 * r + 51) \div 102
             g6 == (2 * g + 51) \div 102
             b6 == (2 * b + 51) \div 102
         IN  16 + (36 * r6) + (6 * g6) + b6

----------------------------------------------------------------------------
(* ANSIParser.handle_sgr.  An attribute state is a record a with the fields *)
(* fg_color, bg_color, bold, underline, reverse of the parser, and raised:  *)
(* TRUE once an exception has left handle_sgr.                              *)

\* One channel of a truecolor selector: int(s) if s else 153.
channel(s) == IF s = <<>> THEN 153 ELSE int(s)

\* The body of "elif code == 38" / "elif code == 48": the new value of the
\* colour field (old when it is left alone), and whether params.index raised.
extended_color(params, code, old) ==
    LET idx == index(params, str(code))
    IN  IF idx = 0 THEN [raised |-> TRUE, color |-> old]
        ELSE IF idx + 1 <= Len(params)
        THEN IF params[idx + 1] = <<"5">> /\ idx + 2 <= Len(params)
             THEN [raised |-> FALSE,
                   color |-> IF params[idx + 2] = <<>> THEN None
                             ELSE IF IsInt(params[idx + 2])
                                  THEN int(params[idx + 2])
                                  ELSE old]
             ELSE IF params[idx + 1] = <<"2">> /\ idx + 4 <= Len(params)
             THEN LET ok == \A k \in 2..4 :
                                params[idx + k] = <<>> \/ IsInt(params[idx + k])
                      r == IF ok THEN channel(params[idx + 2]) ELSE 153
                      g == IF ok THEN channel(params[idx + 3]) ELSE 153
                      b == IF ok THEN channel(params[idx + 4]) ELSE 153
                  IN  [raised |-> FALSE, color |-> rgb_to_256(r, g, b)]
             ELSE [raised |-> FALSE, color |-> old]
        ELSE [raised |-> FALSE, color |-> old]

\* The if/elif chain on one integer code.
sgr_code(params, code, a) ==
    IF code = 0
    THEN [a EXCEPT !.fg_color = None, !.bg_color = None, !.bold = FALSE,
                   !.underline = FALSE, !.reverse = FALSE]
    ELSE IF code = 1 THEN [a EXCEPT !.bold = TRUE]
    ELSE IF code = 4 THEN [a EXCEPT !.underline = TRUE]
    ELSE IF code = 7 THEN [a EXCEPT !.reverse = TRUE]
    ELSE IF code = 22 THEN [a EXCEPT !.bold = FALSE]
    ELSE IF code = 24 THEN [a EXCEPT !.underline = FALSE]
    ELSE IF code = 27 THEN [a EXCEPT !.reverse = FALSE]
    ELSE IF 30 <= code /\ code <= 37 THEN [a EXCEPT !.fg_color = code - 30]
    ELSE IF code = 38
    THEN LET e == extended_color(params, code, a.fg_color)
         IN  [a EXCEPT !.fg_color = e.color, !.raised = e.raised]
    ELSE IF code = 39 THEN [a EXCEPT !.fg_color = None]
    ELSE IF 40 <= code /\ code <= 47 THEN [a EXCEPT !.bg_color = code - 40]
    ELSE IF code = 48
    THEN LET e == extended_color(params, code, a.bg_color)
         IN  [a EXCEPT !.bg_color = e.color, !.raised = e.raised]
    ELSE IF code = 49 THEN [a EXCEPT !.bg_color = None]
    ELSE IF 90 <= code /\ code <= 97 THEN [a EXCEPT !.fg_color = code - 90 + 8]
    ELSE IF 100 <= code /\ code <= 107
    THEN [a EXCEPT !.bg_color = code - 100 + 8]
    ELSE a

\* One iteration in which an empty param is skipped like a param that
\* int() rejects.
sgr_param_skip_empty(params, param, a) ==
    IF IsInt(param) THEN sgr_code(params, int(param), a) ELSE a

\* One iteration of "for param in params": an empty param becomes '0', a
\* param that int() rejects is skipped.
sgr_param(params, param, a) ==
    LET p == IF param = <<>> THEN <<"0">> ELSE param
    IN  IF IsInt(p) THEN sgr_code(params, int(p), a) ELSE a

\* The iterations of the loop for the k-th to the n-th param; an exception
\* ends the loop.
RECURSIVE sgr_loop(_, _, _, _)
sgr_loop(params, k, n, a) ==
    IF k > n \/ a.raised THEN a
    ELSE sgr_loop(params, k + 1, n, sgr_param(params, params[k], a))

handle_sgr(params, a) == sgr_loop(params, 1, Len(params), a)

----------------------------------------------------------------------------
(* ANSIParser.handle_escape_sequence.  A parser state is a record s with    *)
(* the cursor x, y and the fields of an attribute state.                    *)

\* n = int(params[0]) if params[0] else 1, for the commands C, D, A, B;
\* -1 stands for the ValueError that makes the command a no-op.
\* The count with a parameter 0 taken as 1, as terminals do.
count_zero_is_one(params) ==
    IF params[1] = <<>> THEN 1
    ELSE IF IsInt(params[1]) THEN max(1, int(params[1]))
    ELSE -1

count(params) ==
    IF params[1] = <<>> THEN 1
    ELSE IF IsInt(params[1]) THEN int(params[1])
    ELSE -1

\* Cursor position taking the parameters as 0-based.
cursor_position_zero_based(params, s) ==
    LET p1 == params[1]
        has2 == Len(params) > 1 /\ params[2] /= <<>>
    IN  IF (p1 /= <<>> /\ ~IsInt(p1)) \/ (has2 /\ ~IsInt(params[2])) THEN s
        ELSE LET ny == IF p1 /= <<>> THEN int(p1) ELSE 0
                 nx == IF has2 THEN int(params[2]) ELSE 0
             IN  [s EXCEPT !.x = max(0, nx), !.y = max(0, ny)]

cursor_position(params, s) ==
    LET p1 == params[1]
        has2 == Len(params) > 1 /\ params[2] /= <<>>
    IN  IF (p1 /= <<>> /\ ~IsInt(p1)) \/ (has2 /\ ~IsInt(params[2])) THEN s
        ELSE LET ny == IF p1 /= <<>> THEN int(p1) - 1 ELSE 0
                 nx == IF has2 THEN int(params[2]) - 1 ELSE 0
             IN  [s EXCEPT !.x = max(0, nx), !.y = max(0, ny)]

\* Clear screen comparing the parameter as a number.
clear_screen_numeric(params, s) ==
    IF Len(params) > 0 /\ IsInt(params[1]) /\ int(params[1]) = 2
    THEN [s EXCEPT !.x = 0, !.y = 0]
    ELSE s

clear_screen(params, s) ==
    IF Len(params) > 0 /\ params[1] = <<"2">>
    THEN [s EXCEPT !.x = 0, !.y = 0]
    ELSE s

cursor_forward(params, s) ==
    IF count(params) = -1 THEN s ELSE [s EXCEPT !.x = s.x + count(params)]

\* Cursor backward without the clamp.
cursor_backward_unclamped(params, s) ==
    IF count(params) = -1 THEN s ELSE [s EXCEPT !.x = s.x - count(params)]

cursor_backward(params, s) ==
    IF count(params) = -1 THEN s
    ELSE [s EXCEPT !.x = max(0, s.x - count(params))]

cursor_up(params, s) ==
    IF count(params) = -1 THEN s
    ELSE [s EXCEPT !.y = max(0, s.y - count(params))]

cursor_down(params, s) ==
    IF count(params) = -1 THEN s ELSE [s EXCEPT !.y = s.y + count(params)]

handle_escape_sequence(params, command, s) ==
    IF command = "m" THEN handle_sgr(params, s)
    ELSE IF command = "H" \/ command = "f" THEN cursor_position(params, s)
    ELSE IF command = "J" THEN clear_screen(params, s)
    ELSE IF command = "C" THEN cursor_forward(params, s)
    ELSE IF command = "D" THEN cursor_backward(params, s)
    ELSE IF command = "A" THEN cursor_up(params, s)
    ELSE IF command = "B" THEN cursor_down(params, s)
    ELSE s

----------------------------------------------------------------------------
(* ANSIParser.add_character *)

Word(w) ==
    CASE w = "bold" -> <<"b", "o", "l", "d">>
      [] w = "underline" -> <<"u", "n", "d", "e", "r", "l", "i", "n", "e">>
      [] w = "on" -> <<"o", "n">>

\* The colour descriptor without the swap of reverse video.
color_of_unswapped(s) ==
    LET color_parts ==
            (IF s.bold THEN <<Word("bold")>> ELSE <<>>)
            \o (IF s.underline THEN <<Word("underline")>> ELSE <<>>)
            \o (IF s.fg_color /= None THEN <<str(s.fg_color)>> ELSE <<>>)
            \o (IF s.bg_color /= None THEN <<Word("on"), str(s.bg_color)>>
                ELSE <<>>)
    IN  join(<<" ">>, color_parts)

\* The colour descriptor: ' '.join(color_parts).
color_of(s) ==
    LET fg == IF s.reverse THEN s.bg_color ELSE s.fg_color
        bg == IF s.reverse THEN s.fg_color ELSE s.bg_color
        color_parts ==
            (IF s.bold THEN <<Word("bold")>> ELSE <<>>)
            \o (IF s.underline THEN <<Word("underline")>> ELSE <<>>)
            \o (IF fg /= None THEN <<str(fg)>> ELSE <<>>)
            \o (IF bg /= None THEN <<Word("on"), str(bg)>> ELSE <<>>)
    IN  join(<<" ">>, color_parts)

\* The row add_character creates.
row_of(ch, s) ==
    [type |-> <<>>, x |-> s.x, y |-> s.y, text |-> ch, color |-> color_of(s),
     tags |-> <<>>]

\* add_character keeping one cell per position: a cell already at the
\* cursor is replaced.
add_character_dedup(ch, s, rws, mx, my) ==
    [rows |-> Append(SelectSeq(rws, LAMBDA c : c.x /= s.x \/ c.y /= s.y),
                     row_of(ch, s)),
     max_x |-> max(mx, s.x),
     max_y |-> max(my, s.y)]

\* add_character recording the position of the last cell as the dimensions.
add_character_last(ch, s, rws, mx, my) ==
    [rows |-> Append(rws, row_of(ch, s)), max_x |-> s.x, max_y |-> s.y]

\* add_character: the rows and the tracked dimensions after it.
add_character(ch, s, rws, mx, my) ==
    [rows |-> Append(rws, row_of(ch, s)),
     max_x |-> max(mx, s.x),
     max_y |-> max(my, s.y)]

----------------------------------------------------------------------------
(* Input texts.  A text is built from fragments: single characters and      *)
(* whole CSI sequences written from their parameter strings.                *)

MaxChars == 3
MaxFrags == 3
MaxRedraw == 4
MaxSgrFrags == 4
MaxIndex == 260

RECURSIVE Flat(_)
Flat(frags) == IF Len(frags) = 0 THEN <<>> ELSE frags[1] \o Flat(Tail(frags))

SeqsUpTo(S, n) == UNION {[1..k -> S] : k \in 0..n}

Csi(params, command) == <<ESC, "[">> \o join(<<";">>, params) \o <<command>>

\* Every text of at most MaxChars characters the tokens are made of.
ScanChars == {ESC, "[", "]", "(", "B", BEL, BSL}

CharInputs == SeqsUpTo(ScanChars, MaxChars)

\* Literals, line control and cursor commands.
CursorFrags ==
    {<<"X">>, <<LF>>,
     Csi(<<<<"2">>>>, "J"),
     Csi(<<<<>>>>, "H"), Csi(<<<<"0">>, <<"0">>>>, "f"),
     Csi(<<<<"2">>, <<"3">>>>, "H"),
     Csi(<<<<>>>>, "C"), Csi(<<<<"2">>>>, "D"),
     Csi(<<<<"0">>>>, "A"), Csi(<<<<"2">>>>, "B")}

CursorInputs == {Flat(f) : f \in SeqsUpTo(CursorFrags, MaxFrags)}

\* Longer texts of few fragments: cells written, the cursor moved back and
\* cells written again.
RedrawFrags ==
    {<<"X">>, <<LF>>, <<CR>>,
     Csi(<<<<"2">>>>, "J"), Csi(<<<<>>>>, "D"), Csi(<<<<"2">>, <<"3">>>>, "H")}

RedrawInputs == {Flat(f) : f \in SeqsUpTo(RedrawFrags, MaxRedraw)}

\* Literals and SGR sequences of plain codes and empty slots.
SgrFrags ==
    {<<"X">>,
     Csi(<<str(31), str(42), str(7)>>, "m"),
     Csi(<<str(27)>>, "m"),
     Csi(<<<<>>, <<>>>>, "m"),
     Csi(<<str(1), <<>>, str(31)>>, "m"),
     Csi(<<str(1), str(4), str(102)>>, "m")}

SgrInputs == {Flat(f) : f \in SeqsUpTo(SgrFrags, MaxSgrFrags)}

\* Extended-colour selectors: ESC[<sel>;5;<n>m and ESC[<sel>;2;<r>;<g>;<b>m,
\* whole or cut short, after an optional SGR sequence and before a literal.
Selectors == {str(38), str(48), <<"0">> \o str(38), <<"0">> \o str(48)}

Indexes == {<<>>} \cup {str(n) : n \in 0..MaxIndex}

Channels == {<<>>, str(0), str(7), str(153), str(255), str(999)}

ExtLists ==
    {<<sel, str(5), n>> : sel \in Selectors, n \in Indexes}
    \cup {<<sel, str(2), c[1], c[2], c[3]>> :
              sel \in {str(38), str(48)}, c \in [1..3 -> Channels]}
    \cup {<<sel>> \o t : sel \in Selectors,
              t \in {<<>>, <<str(5)>>, <<str(2)>>, <<str(2), str(10)>>,
                     <<str(2), str(10), str(20)>>}}

ExtSetups == {<<>>, Csi(<<str(1), str(4), str(7), str(33), str(44)>>, "m")}

ExtInputs ==
    {p \o Csi(l, "m") \o <<"X">> : p \in ExtSetups, l \in ExtLists}

\* One cursor command with every list of one or two parameter strings,
\* at three starting points and before a literal.
MaxCount == 5

Counts ==
    {<<>>, <<"0", "2">>, str(10)} \cup {str(n) : n \in 0..MaxCount}

CommandLists == {<<a>> : a \in Counts} \cup {<<a, b>> : a, b \in Counts}

CommandLetters == {"H", "f", "J", "A", "B", "C", "D", "K"}

CommandSetups ==
    {<<>>,
     Csi(<<str(3), str(4)>>, "H"),
     Csi(<<str(1), str(7), str(35)>>, "m") \o <<"X", LF, "X", "X">>}

CommandInputs ==
    {p \o Csi(l, c) \o <<"X">> :
         p \in CommandSetups, l \in CommandLists, c \in CommandLetters}

\* Truecolor selectors ESC[38;2;r;g;bm: every grey r = g = b, and every
\* value of one channel next to fixed values of the other two.
MaxChannel == 255

Anchors == {1, 128, 255}

RgbTriples ==
    {<<c, c, c>> : c \in 0..MaxChannel}
    \cup UNION {{<<c, a, b>>, <<a, c, b>>, <<a, b, c>>} :
                    c \in 0..MaxChannel, a \in Anchors, b \in Anchors}

RgbInputs ==
    {Csi(<<str(38), str(2), str(t[1]), str(t[2]), str(t[3])>>, "m") :
         t \in RgbTriples}

\* Plain text: printable characters and newlines only.
MaxPlain == 4

PlainInputs == SeqsUpTo({"A", "B", "C", LF}, MaxPlain)

\* Printable characters among control characters.
MaxControl == 3

ControlInputs == SeqsUpTo({"X", SOH, TAB, LF, CR}, MaxControl)

\* Parameter lists with two extended-colour selectors.
TwoSelectors ==
    {<<str(s1), str(5), str(a), str(s2), str(5), str(b)>> :
        s1 \in {38, 48}, s2 \in {38, 48}, a \in {38, 48, 200}, b \in {201}}

TwoSelectorInputs == {Csi(l, "m") \o <<"X">> : l \in TwoSelectors}

\* One token that is skipped, or an ESC that starts none, after cells and
\* attributes have been set and before a literal.
MaxOscBody == 2

OscBodies == SeqsUpTo({"t", "["}, MaxOscBody)

SkipTokens ==
    {<<ESC, "]">> \o b \o t : b \in OscBodies, t \in {<<BEL>>, <<ESC, BSL>>}}
    \cup {<<ESC, p, c>> : p \in {"(", ")"}, c \in {"A", "B", "0", "1", "2"}}
    \cup {Csi(l, c) : l \in {<<<<>>>>, <<str(2)>>, <<str(1), str(2)>>},
                      c \in {"K", "r", "s", "h"}}
    \cup {<<ESC>>, <<ESC, "(">>, <<ESC, "]", "t">>, <<ESC, "[", "?">>}

SkipSetups ==
    {<<>>,
     Csi(<<str(1), str(4), str(7), str(35), str(42)>>, "m")
         \o <<"X", LF, "X", "X">>}

SkipInputs ==
    {p \o t \o <<"X">> : p \in SkipSetups, t \in SkipTokens}

Inputs ==
    CharInputs \cup CursorInputs \cup RedrawInputs \cup SgrInputs
    \cup ExtInputs \cup CommandInputs \cup RgbInputs \cup PlainInputs
    \cup ControlInputs \cup TwoSelectorInputs \cup SkipInputs

----------------------------------------------------------------------------
(* ANSIParser.parse, one action per branch of the loop body *)

\* The parser's cursor and attributes as a parser state.
State ==
    [x |-> x, y |-> y, fg_color |-> fg_color, bg_color |-> bg_color,
     bold |-> bold, underline |-> underline, reverse |-> reverse,
     raised |-> FALSE]

\* ANSIParser.__init__ and the start of parse.
Constructed ==
    /\ i = 0
    /\ x = 0
    /\ y = 0
    /\ fg_color = None
    /\ bg_color = None
    /\ bold = FALSE
    /\ underline = FALSE
    /\ reverse = FALSE
    /\ rows = <<>>
    /\ max_x = 0
    /\ max_y = 0
    /\ pc = "scan"
    /\ returned = <<>>

\* A new parser, and the text handed to parse.
Init == content \in Inputs /\ Constructed

Scanning == pc = "scan" /\ i < Len(content)

\* The parameter list of the CSI sequence matched at p.
params_at(text, p) ==
    LET params_str == replace(csi_group1(text, p))
    IN  IF params_str /= <<>> THEN split(params_str, ";") ELSE <<<<>>>>

\* The branch with a newline that moves down without returning to column 0.
regular_character_bare_linefeed(ch, s) ==
    IF ch = LF THEN [x |-> s.x, y |-> s.y + 1, emit |-> FALSE]
    ELSE IF ch = CR THEN [x |-> 0, y |-> s.y, emit |-> FALSE]
    ELSE IF ch /= ESC /\ (ord(ch) >= 32 \/ ch = TAB)
    THEN [x |-> s.x + 1, y |-> s.y, emit |-> TRUE]
    ELSE [x |-> s.x, y |-> s.y, emit |-> FALSE]

\* The branch with the column incremented for dropped characters too.
regular_character_always_advance(ch, s) ==
    IF ch = LF THEN [x |-> 0, y |-> s.y + 1, emit |-> FALSE]
    ELSE IF ch = CR THEN [x |-> 0, y |-> s.y, emit |-> FALSE]
    ELSE IF ch /= ESC
    THEN [x |-> s.x + 1, y |-> s.y, emit |-> ord(ch) >= 32 \/ ch = TAB]
    ELSE [x |-> s.x, y |-> s.y, emit |-> FALSE]

\* The "Regular character" branch on ch: the cursor after it, and whether
\* add_character is called (with the cursor before it).
regular_character(ch, s) ==
    IF ch = LF THEN [x |-> 0, y |-> s.y + 1, emit |-> FALSE]
    ELSE IF ch = CR THEN [x |-> 0, y |-> s.y, emit |-> FALSE]
    ELSE IF ch /= ESC /\ (ord(ch) >= 32 \/ ch = TAB)
    THEN [x |-> s.x + 1, y |-> s.y, emit |-> TRUE]
    ELSE [x |-> s.x, y |-> s.y, emit |-> FALSE]

\* csi_pattern matches at i: dispatch; an exception leaves parse.
StepCSI ==
    /\ Scanning
    /\ csi_End(content, i) /= -1
    /\ LET s == handle_escape_sequence(params_at(content, i),
                                       csi_group2(content, i), State)
       IN  /\ x' = s.x
           /\ y' = s.y
           /\ fg_color' = s.fg_color
           /\ bg_color' = s.bg_color
           /\ bold' = s.bold
           /\ underline' = s.underline
           /\ reverse' = s.reverse
           /\ i' = IF s.raised THEN i ELSE csi_End(content, i)
           /\ pc' = IF s.raised THEN "raised" ELSE "scan"
    /\ UNCHANGED <<content, rows, max_x, max_y, returned>>

\* osc_pattern matches at i: skipped.
StepOSC ==
    /\ Scanning
    /\ csi_End(content, i) = -1
    /\ osc_End(content, i) /= -1
    /\ i' = osc_End(content, i)
    /\ UNCHANGED <<content, x, y, fg_color, bg_color, bold, underline,
                   reverse, rows, max_x, max_y, pc, returned>>

\* charset_pattern matches at i: skipped.
StepCharset ==
    /\ Scanning
    /\ csi_End(content, i) = -1
    /\ osc_End(content, i) = -1
    /\ charset_End(content, i) /= -1
    /\ i' = charset_End(content, i)
    /\ UNCHANGED <<content, x, y, fg_color, bg_color, bold, underline,
                   reverse, rows, max_x, max_y, pc, returned>>

\* No pattern matches: one regular character.
StepChar ==
    /\ Scanning
    /\ csi_End(content, i) = -1
    /\ osc_End(content, i) = -1
    /\ charset_End(content, i) = -1
    /\ LET ch == content[i + 1]
           c == regular_character(ch, State)
           added == add_character(ch, State, rows, max_x, max_y)
       IN  /\ x' = c.x
           /\ y' = c.y
           /\ rows' = IF c.emit THEN added.rows ELSE rows
           /\ max_x' = IF c.emit THEN added.max_x ELSE max_x
           /\ max_y' = IF c.emit THEN added.max_y ELSE max_y
    /\ i' = i + 1
    /\ UNCHANGED <<content, fg_color, bg_color, bold, underline, reverse, pc,
                   returned>>

\* The loop condition fails: parse returns self.rows; returned keeps, for
\* every parse that has returned, its text and the rows it returned.
Return ==
    /\ pc = "scan"
    /\ ~(i < Len(content))
    /\ pc' = "done"
    /\ returned' = Append(returned, [text |-> content, rows |-> rows])
    /\ UNCHANGED <<content, i, x, y, fg_color, bg_color, bold, underline,
                   reverse, rows, max_x, max_y>>

Next == StepCSI \/ StepOSC \/ StepCharset \/ StepChar \/ Return

Spec == Init /\ [][Next]_vars

----------------------------------------------------------------------------
(* open_ans called again: each call creates its own parser and parses a    *)
(* text, here one that was parsed before or another one.                   *)

MaxInvocations == 3
MaxAgainFrags == 2

AgainFrags ==
    {<<"X">>,
     Csi(<<str(31), str(1), str(7)>>, "m"),
     Csi(<<str(2), str(3)>>, "H"),
     <<ESC, "]", "t", BEL>>,
     <<ESC, "(", "B">>}

AgainInputs == {Flat(f) : f \in SeqsUpTo(AgainFrags, MaxAgainFrags)}

OtherTexts == {Csi(<<str(4), str(42)>>, "m") \o <<"Y", LF, "Y">>}

\* The fields of the parser object.
Fields ==
    [x |-> x, y |-> y, fg_color |-> fg_color, bg_color |-> bg_color,
     bold |-> bold, underline |-> underline, reverse |-> reverse,
     rows |-> rows, max_x |-> max_x, max_y |-> max_y]

\* A constructor that leaves rows to a list shared by all parsers.
ANSIParser_init_shared_rows(prev) ==
    [x |-> 0, y |-> 0, fg_color |-> None, bg_color |-> None,
     bold |-> FALSE, underline |-> FALSE, reverse |-> FALSE,
     rows |-> prev.rows, max_x |-> 0, max_y |-> 0]

\* ANSIParser(): the fields of the new parser, the previous parser having
\* the fields prev.
ANSIParser_init(prev) ==
    [x |-> 0, y |-> 0, fg_color |-> None, bg_color |-> None,
     bold |-> FALSE, underline |-> FALSE, reverse |-> FALSE,
     rows |-> <<>>, max_x |-> 0, max_y |-> 0]

\* parser = ANSIParser(); rows = parser.parse(text), after an earlier call
\* has returned.
OpenAns ==
    /\ pc = "done"
    /\ Len(returned) < MaxInvocations
    /\ content' \in {returned[k].text : k \in 1..Len(returned)}
                     \cup OtherTexts
    /\ LET f == ANSIParser_init(Fields)
       IN  /\ x' = f.x
           /\ y' = f.y
           /\ fg_color' = f.fg_color
           /\ bg_color' = f.bg_color
           /\ bold' = f.bold
           /\ underline' = f.underline
           /\ reverse' = f.reverse
           /\ rows' = f.rows
           /\ max_x' = f.max_x
           /\ max_y' = f.max_y
    /\ i' = 0
    /\ pc' = "scan"
    /\ UNCHANGED returned

InitAgain == content \in AgainInputs /\ Constructed

NextAgain == Next \/ OpenAns

SpecAgain == InitAgain /\ [][NextAgain]_vars

----------------------------------------------------------------------------
(* Vocabulary of the properties *)

\* The scanner is about to dispatch a CSI sequence with this command.
AtCsi(command) ==
    /\ Scanning
    /\ csi_End(content, i) /= -1
    /\ csi_group2(content, i) = command

\* The parameter list of the CSI sequence the scanner is about to dispatch.
CurParams == params_at(content, i)

\* The characters just consumed, ending at position i, are t.
JustRead(t) == i >= Len(t) /\ SubSeq(content, i - Len(t) + 1, i) = t

\* The step appends a cell.
Emits == Len(rows') = Len(rows) + 1

Last(sq) == sq[Len(sq)]

Attributes == <<fg_color, bg_color, bold, underline, reverse>>

----------------------------------------------------------------------------
(* C1: for every input text parse returns the cell list and raises no      *)
(* error, whatever the parameter strings of its CSI sequences are.         *)
C1_ParseNeverRaises == pc /= "raised"

(* C2: every iteration of the parse loop strictly increases i, and the     *)
(* loop ends exactly when i has reached the length of the text.            *)
C2_EveryIterationAdvances ==
    [][/\ Scanning => i' > i
       /\ pc' /= "scan" => i' = Len(content)]_vars

(* C3: the cursor column x and row y are never negative.                   *)
C3_CursorNonNegative == x >= 0 /\ y >= 0

\* A backward move of 2 from column 0 and an upward move from row 0 have
\* been clamped.
C3_Witness ==
    /\ JustRead(Csi(<<str(2)>>, "D") \o Csi(<<str(0)>>, "A"))
    /\ i = 8
    /\ x = 0
    /\ y = 0

(* C4: the foreground and the background are each absent or an integer in  *)
(* 0..255.                                                                  *)
C4_ColoursInPalette ==
    /\ fg_color = None \/ fg_color \in 0..255
    /\ bg_color = None \/ bg_color \in 0..255

(* C5: the cell list is append-only: a scanner step leaves it unchanged or  *)
(* appends one cell at the cursor position of that moment; cells already   *)
(* emitted are never removed, reordered or modified.                       *)
C5_AppendOnly ==
    [][\/ rows' = rows
       \/ /\ Emits
          /\ SubSeq(rows', 1, Len(rows)) = rows
          /\ Last(rows').x = x
          /\ Last(rows').y = y]_vars

\* Two cells emitted at the same position, the cursor having been moved
\* back in between.
C5_Witness ==
    /\ Len(rows) = 2
    /\ rows[1].x = rows[2].x
    /\ rows[1].y = rows[2].y
    /\ pc = "done"

\* The width and height of the result: one plus the tracked bounds, 0 for
\* an empty cell list.
Width == IF Len(rows) = 0 THEN 0 ELSE max_x + 1

Height == IF Len(rows) = 0 THEN 0 ELSE max_y + 1

MaxOf(S) == CHOOSE m \in S : \A n \in S : n <= m

(* C6: width and height are one plus the maximum x and y among the emitted *)
(* cells, 0 when there is none, and a step that emits no cell leaves the   *)
(* tracked bounds max_x and max_y unchanged.                               *)
C6_Dimensions ==
    /\ [](Width = IF rows = <<>> THEN 0
                  ELSE 1 + MaxOf({rows[k].x : k \in 1..Len(rows)}))
    /\ [](Height = IF rows = <<>> THEN 0
                   ELSE 1 + MaxOf({rows[k].y : k \in 1..Len(rows)}))
    /\ [][rows' = rows => max_x' = max_x /\ max_y' = max_y]_vars

\* The last cell is left of and above an earlier one, and the cursor has
\* moved on from it.
C6_Witness ==
    /\ Len(rows) = 2
    /\ rows[2].x < rows[1].x
    /\ rows[2].y < rows[1].y
    /\ x > rows[2].x
    /\ pc = "done"

\* The channel of a truecolor selector read from slot k of the current
\* parameter list: 153 when the slot is missing, empty or not a number.
SlotOr153(k) ==
    IF k <= Len(CurParams) /\ IsInt(CurParams[k]) THEN int(CurParams[k])
    ELSE 153

\* The current parameter list is exactly <sel>;5;<n> with n in 0..255.
IsIndexed(sel) ==
    /\ Len(CurParams) = 3
    /\ CurParams[1] = str(sel)
    /\ CurParams[2] = str(5)
    /\ IsInt(CurParams[3])
    /\ int(CurParams[3]) <= 255

\* The current parameter list is exactly <sel>;2;<r>;<g>;<b> with r, g, b
\* in 0..255.
IsTruecolor(sel) ==
    /\ Len(CurParams) = 5
    /\ CurParams[1] = str(sel)
    /\ CurParams[2] = str(2)
    /\ \A k \in 3..5 : IsInt(CurParams[k]) /\ int(CurParams[k]) <= 255

(* C7: after ESC[38;5;n m the foreground is n, after ESC[38;2;r;g;b m it   *)
(* is the quantised index of (r, g, b), for all n, r, g, b in 0..255; 48   *)
(* does the same for the background.                                       *)
C7_SelectorSetsColour ==
    [][AtCsi("m") =>
          /\ IsIndexed(38) => fg_color' = int(CurParams[3])
          /\ IsIndexed(48) => bg_color' = int(CurParams[3])
          /\ IsTruecolor(38) =>
                 fg_color' = rgb_to_256(SlotOr153(3), SlotOr153(4),
                                        SlotOr153(5))
          /\ IsTruecolor(48) =>
                 bg_color' = rgb_to_256(SlotOr153(3), SlotOr153(4),
                                        SlotOr153(5))]_vars

\* The current parameter list is <sel>;2 followed by at most three channel
\* slots, each a number or empty.
IsTruecolorWithGaps(sel) ==
    /\ Len(CurParams) \in 2..5
    /\ CurParams[1] = str(sel)
    /\ CurParams[2] = str(2)

(* C8: in 38;2;R;G;B (48;2;R;G;B) every channel slot that is empty or      *)
(* missing from the end of the list is replaced by 153, independently of   *)
(* the others, and the quantised index of the triple is assigned to the    *)
(* foreground (background).                                                *)
C8_ChannelDefaults ==
    [][AtCsi("m") =>
          /\ IsTruecolorWithGaps(38) =>
                 fg_color' = rgb_to_256(SlotOr153(3), SlotOr153(4),
                                        SlotOr153(5))
          /\ IsTruecolorWithGaps(48) =>
                 bg_color' = rgb_to_256(SlotOr153(3), SlotOr153(4),
                                        SlotOr153(5))]_vars

\* What SGR code 0 does to an attribute state, as the claim states it.
ResetOf(a) ==
    [a EXCEPT !.fg_color = None, !.bg_color = None, !.bold = FALSE,
              !.underline = FALSE, !.reverse = FALSE]

(* C9: SGR code 0 clears bold, underline and reverse and makes both        *)
(* colours absent; an empty slot of an SGR list acts as code 0 at its      *)
(* position: whatever the loop did before the slot, the outcome of the     *)
(* list is that of the slots after it applied to the reset state; and a    *)
(* character emitted right after ESC[;m has the empty colour descriptor.   *)
C9_EmptySlotResets ==
    [][/\ AtCsi("m") =>
            \A k \in 1..Len(CurParams) :
                CurParams[k] \in {<<>>, <<"0">>} =>
                    LET b == sgr_loop(CurParams, 1, k - 1, State)
                        e == IF b.raised THEN b
                             ELSE sgr_loop(CurParams, k + 1, Len(CurParams),
                                           ResetOf(b))
                    IN  /\ fg_color' = e.fg_color
                        /\ bg_color' = e.bg_color
                        /\ bold' = e.bold
                        /\ underline' = e.underline
                        /\ reverse' = e.reverse
                        /\ (k = Len(CurParams) /\ pc' /= "raised") =>
                               /\ fg_color' = None
                               /\ bg_color' = None
                               /\ ~bold' /\ ~underline' /\ ~reverse'
       /\ (Emits /\ JustRead(Csi(<<<<>>, <<>>>>, "m"))) =>
              Last(rows').color = <<>>]_vars

\* ESC[1;4;102m ESC[;m X has been read: the cell of X has the empty
\* descriptor although bold, underline and a background had been set.
C9_Witness ==
    /\ JustRead(Csi(<<str(1), str(4), str(102)>>, "m")
                \o Csi(<<<<>>, <<>>>>, "m") \o <<"X">>)
    /\ Len(rows) > 0
    /\ Last(rows).color = <<>>
    /\ ~bold /\ ~underline /\ bg_color = None

\* The tokens of a colour descriptor, and the colours it shows: the number
\* before "on" (or alone) and the number after "on".
ColourTokens(c) ==
    LET t == IF c = <<>> THEN <<>> ELSE split(c, " ")
        t1 == IF Len(t) > 0 /\ t[1] = Word("bold") THEN Tail(t) ELSE t
    IN  IF Len(t1) > 0 /\ t1[1] = Word("underline") THEN Tail(t1) ELSE t1

ShownFg(c) ==
    LET t == ColourTokens(c)
    IN  IF Len(t) > 0 /\ IsInt(t[1]) THEN int(t[1]) ELSE None

ShownBg(c) ==
    LET t == ColourTokens(c)
    IN  IF Len(t) >= 2 /\ t[Len(t) - 1] = Word("on") /\ IsInt(t[Len(t)])
        THEN int(t[Len(t)]) ELSE None

(* C10: emitting a cell leaves the attribute state unchanged; the emitted  *)
(* descriptor shows the stored background as foreground and the stored     *)
(* foreground after "on" while reverse is active, and the stored           *)
(* foreground and background in their own places otherwise.                *)
C10_EmitKeepsAttributes ==
    [][Emits =>
          /\ UNCHANGED Attributes
          /\ ShownFg(Last(rows').color)
                 = (IF reverse THEN bg_color ELSE fg_color)
          /\ ShownBg(Last(rows').color)
                 = (IF reverse THEN fg_color ELSE bg_color)]_vars

\* ESC[31;42;7m X ESC[27m X: the first cell shows "2 on 1", the second
\* "1 on 2", and the state still holds foreground 1 and background 2.
C10_Witness ==
    /\ Len(rows) = 2
    /\ rows[1].color = <<"2", " ", "o", "n", " ", "1">>
    /\ rows[2].color = <<"1", " ", "o", "n", " ", "2">>
    /\ fg_color = 1
    /\ bg_color = 2
    /\ ~reverse

\* Nothing but the cursor and the scan position changes.
OnlyCursorMoves ==
    UNCHANGED <<Attributes, rows, max_x, max_y, pc, content, returned>>

\* The value of a parameter string that is present and non-empty.
Given(k) == k <= Len(CurParams) /\ CurParams[k] /= <<>>

(* C11: CSI H and CSI f set the cursor absolutely: row = max(0, p1 - 1)    *)
(* when the first parameter is present and non-empty, else 0; column =     *)
(* max(0, p2 - 1) when the second is, else 0; attributes and cells are     *)
(* unchanged.                                                              *)
C11_CursorPosition ==
    [][(AtCsi("H") \/ AtCsi("f")) =>
          /\ y' = IF Given(1) THEN max(0, int(CurParams[1]) - 1) ELSE 0
          /\ x' = IF Given(2) THEN max(0, int(CurParams[2]) - 1) ELSE 0
          /\ OnlyCursorMoves]_vars

\* ESC[5;10H X read with the cursor elsewhere before: X is at column 9,
\* row 4.
C11_Witness ==
    /\ JustRead(Csi(<<str(3), str(4)>>, "H")
                \o Csi(<<str(5), str(10)>>, "H") \o <<"X">>)
    /\ Len(rows) = 1
    /\ rows[1].x = 9
    /\ rows[1].y = 4

\* The integer nearest to num / den (num >= 0, den > 0).
Round(num, den) == (2 * num + den) \div (2 * den)

\* The SGR codes that change the foreground when a channel value is read
\* again as a code.
ForegroundCodes == {0} \cup 30..39 \cup 90..97

(* C12: for r, g, b in 0..255 rgb_to_256 returns an index in 16..255: for  *)
(* r = g = b it is 16 when r < 8, 231 when r > 248, else                   *)
(* round((r - 8) * 24 / 247) + 232, which is in 232..255; otherwise it is  *)
(* 16 + 36 round(r/51) + 6 round(g/51) + round(b/51) with levels in 0..5,  *)
(* which is in 16..231.  The index is the foreground after the selector    *)
(* whenever no channel value is itself a foreground code.                  *)
C12_Quantisation ==
    [][(AtCsi("m") /\ IsTruecolor(38)) =>
          LET r == int(CurParams[3])
              g == int(CurParams[4])
              b == int(CurParams[5])
              v == rgb_to_256(r, g, b)
          IN  /\ v \in 16..255
              /\ (r = g /\ g = b /\ r < 8) => v = 16
              /\ (r = g /\ g = b /\ r > 248) => v = 231
              /\ (r = g /\ g = b /\ r >= 8 /\ r <= 248) =>
                     /\ v = Round((r - 8) * 24, 247) + 232
                     /\ v \in 232..255
              /\ ~(r = g /\ g = b) =>
                     /\ v = 16 + 36 * Round(r, 51) + 6 * Round(g, 51)
                                + Round(b, 51)
                     /\ \A c \in {r, g, b} : Round(c, 51) \in 0..5
                     /\ v \in 16..231
              /\ (r = 255 /\ g = 255 /\ b = 255) => v = 231
              /\ (r = 0 /\ g = 0 /\ b = 0) => v = 16
              /\ (r = 255 /\ g = 0 /\ b = 0) => v = 196
              /\ ({r, g, b} \cap ForegroundCodes = {}) => fg_color' = v]_vars

\* ESC[38;2;255;255;255m has been processed: the foreground is 231.
C12_Witness ==
    /\ JustRead(Csi(<<str(38), str(2), str(255), str(255), str(255)>>, "m"))
    /\ fg_color = 231

(* C13: two parses of the same text, each by its own new parser, return    *)
(* identical cell sequences, whatever was parsed in between.               *)
C13_SameTextSameCells ==
    \A a, b \in 1..Len(returned) :
        returned[a].text = returned[b].text =>
            returned[a].rows = returned[b].rows

\* A text with coloured cells has been parsed, then another text, then the
\* first text again.
C13_Witness ==
    /\ Len(returned) = 3
    /\ returned[1].text = returned[3].text
    /\ returned[2].text /= returned[1].text
    /\ returned[2].rows /= <<>>
    /\ Len(returned[3].rows) = 1
    /\ returned[3].rows[1].color /= <<>>

\* The text has only newlines and characters of code point >= 32.
IsPlain(text) ==
    \A k \in 1..Len(text) : text[k] = LF \/ ord(text[k]) >= 32

\* The positions of the first n characters of text that are not newlines.
NonNewlines(text, n) ==
    SelectSeq([k \in 1..n |-> k], LAMBDA k : text[k] /= LF)

\* The newlines of text before position k.
NewlinesBefore(text, k) == {j \in 1..(k - 1) : text[j] = LF}

(* C14: for a text of newlines and characters >= 32 only, the cells are    *)
(* the non-newline characters in input order, each with the empty colour,  *)
(* at column = offset after the most recent newline and row = number of    *)
(* newlines before it.                                                     *)
C14_PlainText ==
    IsPlain(content) =>
        LET at == NonNewlines(content, i)
        IN  /\ Len(rows) = Len(at)
            /\ \A m \in 1..Len(at) :
                 /\ rows[m].text = content[at[m]]
                 /\ rows[m].color = <<>>
                 /\ rows[m].y = Cardinality(NewlinesBefore(content, at[m]))
                 /\ rows[m].x =
                      at[m] - 1 - MaxOf(NewlinesBefore(content, at[m]) \cup {0})

\* 'AB\nC' has been parsed into (0,0,'A'), (1,0,'B'), (0,1,'C').
C14_Witness ==
    /\ pc = "done"
    /\ content = <<"A", "B", LF, "C">>
    /\ Len(rows) = 3
    /\ <<rows[1].x, rows[1].y, rows[1].text>> = <<0, 0, "A">>
    /\ <<rows[2].x, rows[2].y, rows[2].text>> = <<1, 0, "B">>
    /\ <<rows[3].x, rows[3].y, rows[3].text>> = <<0, 1, "C">>

\* The scanner is at a character other than newline, carriage return and
\* ESC (no token starts there: every token starts with ESC).
AtOrdinary == Scanning /\ content[i + 1] \notin {LF, CR, ESC}

(* C15, as stated: in the single-character fallback every character other *)
(* than newline, carriage return and ESC advances the column by exactly 1, *)
(* whether or not a cell is emitted for it.                                *)
C15_EveryCharAdvances == [][AtOrdinary => x' = x + 1]_vars

(* C15, amended: a tab or a character of code point >= 32 emits a cell and  *)
(* advances the column by exactly 1; a control character below 32 other    *)
(* than tab, newline, carriage return and ESC emits no cell and leaves the *)
(* cursor where it is.                                                     *)
C15_EmittedCharAdvances ==
    [][AtOrdinary =>
          IF ord(content[i + 1]) >= 32 \/ content[i + 1] = TAB
          THEN Emits /\ x' = x + 1 /\ y' = y
          ELSE rows' = rows /\ x' = x /\ y' = y]_vars

\* X, a control character, X: the second X is in column 1.
C15_Witness ==
    /\ pc = "done"
    /\ content = <<"X", SOH, "X">>
    /\ Len(rows) = 2
    /\ rows[2].x = 1
    /\ x = 2

\* The SGR list about to be processed is s1;5;a;38;5;b with s1 a selector
\* and b no SGR code of its own.
IsSecondForeground ==
    /\ Len(CurParams) = 6
    /\ CurParams[1] \in {str(38), str(48)}
    /\ CurParams[2] = str(5)
    /\ CurParams[4] = str(38)
    /\ CurParams[5] = str(5)
    /\ IsInt(CurParams[6])
    /\ int(CurParams[6]) \in 108..255

(* C16: each extended-colour selector reads the slots right after its own  *)
(* position: after 38;5;a;38;5;b or 48;5;38;38;5;b the foreground is b.    *)
C16_SelectorReadsOwnSlots ==
    [][AtCsi("m") /\ IsSecondForeground =>
          fg_color' = int(CurParams[6])]_vars

(* C17: an extended-colour selector changes only its own colour: the list  *)
(* 38;5;n or 38;2;r;g;b leaves bold, underline, reverse and background as  *)
(* they were, 48;5;n and 48;2;r;g;b leave bold, underline, reverse and     *)
(* foreground as they were, for all n, r, g, b in 0..255.                  *)
C17_SelectorChangesOwnField ==
    [][AtCsi("m") =>
          /\ IsIndexed(38) \/ IsTruecolor(38) =>
                 UNCHANGED <<bold, underline, reverse, bg_color>>
          /\ IsIndexed(48) \/ IsTruecolor(48) =>
                 UNCHANGED <<bold, underline, reverse, fg_color>>]_vars

\* The characters content[i + 1 .. e] are a terminated OSC sequence: ESC ],
\* a body without BEL and ESC, then BEL or ESC \.
IsOsc(e) ==
    /\ e <= Len(content)
    /\ content[i + 1] = ESC
    /\ At(content, i + 1) = "]"
    /\ \/ /\ e >= i + 3
          /\ content[e] = BEL
          /\ \A k \in (i + 3)..(e - 1) : content[k] \notin {BEL, ESC}
       \/ /\ e >= i + 4
          /\ content[e - 1] = ESC
          /\ content[e] = BSL
          /\ \A k \in (i + 3)..(e - 2) : content[k] \notin {BEL, ESC}

\* The characters content[i + 1 .. e] are a charset selection.
IsCharset(e) ==
    /\ e = i + 3
    /\ e <= Len(content)
    /\ content[i + 1] = ESC
    /\ At(content, i + 1) \in {"(", ")"}
    /\ At(content, i + 2) \in {"A", "B", "0", "1", "2"}

\* The characters content[i + 1 .. e] are a CSI sequence with a command
\* letter that has no handler.
IsOtherCsi(e) ==
    /\ e = csi_End(content, i)
    /\ csi_group2(content, i)
         \in Letters \ {"m", "H", "f", "J", "A", "B", "C", "D"}

\* content[i + 1] is an ESC that starts no token.
IsBareEsc(e) ==
    /\ e = i + 1
    /\ content[i + 1] = ESC
    /\ csi_End(content, i) = -1
    /\ \A d \in (i + 1)..Len(content) : ~IsOsc(d) /\ ~IsCharset(d)

(* C18: a terminated OSC sequence, a charset selection, a CSI sequence     *)
(* with a command letter other than m, H, f, J, A, B, C, D, and an ESC     *)
(* that starts no token leave cursor, attributes, tracked bounds and cells *)
(* unchanged; the scanner moves past the whole token, so the characters    *)
(* of an OSC sequence never become cells.                                  *)
C18_SkippedTokens ==
    [][Scanning =>
          \A e \in (i + 1)..Len(content) :
              IsOsc(e) \/ IsCharset(e) \/ IsOtherCsi(e) \/ IsBareEsc(e) =>
                  /\ i' = e
                  /\ UNCHANGED <<x, y, Attributes, rows, max_x, max_y>>]_vars

\* An OSC sequence ended by ESC \ has been skipped after three cells were
\* written in bold: the cursor and the cells are as before it.
C18_Witness ==
    /\ JustRead(<<ESC, "]", "t", "[", ESC, BSL>>)
    /\ Len(rows) = 3
    /\ bold
    /\ x = 2
    /\ y = 1

\* The count of a relative cursor command: the value of the first
\* parameter when it is non-empty, else 1.
Amount == IF CurParams[1] /= <<>> THEN int(CurParams[1]) ELSE 1

(* C19: CSI C sets column to column + n, CSI D to max(0, column - n),      *)
(* CSI A sets row to max(0, row - n), CSI B to row + n, where n is the     *)
(* value of the first parameter when it is non-empty and 1 when it is      *)
(* empty; the other coordinate, the attributes and the cells are           *)
(* unchanged.                                                              *)
C19_RelativeMoves ==
    [][/\ AtCsi("C") => x' = x + Amount /\ y' = y /\ OnlyCursorMoves
       /\ AtCsi("D") => x' = max(0, x - Amount) /\ y' = y /\ OnlyCursorMoves
       /\ AtCsi("A") => y' = max(0, y - Amount) /\ x' = x /\ OnlyCursorMoves
       /\ AtCsi("B") => y' = y + Amount /\ x' = x /\ OnlyCursorMoves]_vars

\* ESC[3;4H ESC[0;2D X: the count 0 moves nothing, X is at column 3, row 2.
C19_Witness ==
    /\ pc = "done"
    /\ content = Csi(<<str(3), str(4)>>, "H")
                   \o Csi(<<str(0), str(2)>>, "D") \o <<"X">>
    /\ Len(rows) = 1
    /\ rows[1].x = 3
    /\ rows[1].y = 2

\* The first parameter of the CSI sequence the scanner is at is "2".
FirstIsTwo == CurParams[1] = <<"2">>

(* C20: CSI J resets the cursor to (0, 0) exactly when its first parameter *)
(* is the string "2" and leaves it unchanged otherwise; attributes,        *)
(* tracked bounds and earlier cells are unchanged either way.              *)
C20_ClearScreen ==
    [][AtCsi("J") =>
          /\ x' = IF FirstIsTwo THEN 0 ELSE x
          /\ y' = IF FirstIsTwo THEN 0 ELSE y
          /\ OnlyCursorMoves]_vars

\* Three cells, then ESC[2J and X: X is a fourth cell, at (0, 0) like the
\* first one and with the attributes set before.
C20_Witness ==
    /\ pc = "done"
    /\ content = Csi(<<str(1), str(7), str(35)>>, "m")
                   \o <<"X", LF, "X", "X">>
                   \o Csi(<<str(2)>>, "J") \o <<"X">>
    /\ Len(rows) = 4
    /\ <<rows[4].x, rows[4].y>> = <<0, 0>>
    /\ <<rows[1].x, rows[1].y>> = <<0, 0>>
    /\ rows[4].color = rows[1].color
    /\ rows[4].color /= <<>>
    /\ max_x = 1
    /\ max_y = 1

====
